---- MODULE Spec2Model ----
(***************************************************************************)
(* Model of the type-state HTTP request parser of src/src/parser.rs.      *)
(* A text is a sequence of one-byte strings; a span (&str) is the         *)
(* sequence of bytes it views.  Rust's bounds-checked indexing and        *)
(* slicing panic when out of range: a panic is the parser state "Panic".  *)
(***************************************************************************)
EXTENDS Integers, Sequences, FiniteSets, TLC

VARIABLES input, state, packet, request, error

vars == <<input, state, packet, request, error>>

\* ---- byte constants (parser.rs 5-14) ----
SPACE == " "
COLON == ":"
CR == "\r"
LF == "\n"
TAB == "\t"

\* ---- bounds of the model ----
MaxHeaders == 2

\* Result of an index that is out of bounds (the scan panics).
OOB == 0 - 1

\* Rust `&s[from..to]` and `&s[from..]` (0-based, half-open).
Slice(s, from, to) == SubSeq(s, from + 1, to)
SliceFrom(s, from) == SubSeq(s, from + 1, Len(s))

\* ---- Request ----
NoHeader == [k \in {} |-> <<>>]

Request_new ==
  [method |-> <<>>, request_uri |-> <<>>, http_version |-> <<>>,
   header |-> NoHeader, body |-> <<>>]

\* Variant of HashMap_insert: header names are folded to lower case.
ToLower(t) ==
  [i \in 1..Len(t) |->
     CASE t[i] = "X" -> "x" [] t[i] = "K" -> "k" [] t[i] = "H" -> "h"
       [] t[i] = "U" -> "u" [] t[i] = "C" -> "c" [] t[i] = "A" -> "a"
       [] OTHER -> t[i]]

HashMap_insert_lower(h, key, value) ==
  [k \in (DOMAIN h) \cup {ToLower(key)} |-> IF k = ToLower(key) THEN value ELSE h[k]]

\* HashMap::insert: one entry per key, the new value replaces the old.
HashMap_insert(h, key, value) ==
  [k \in (DOMAIN h) \cup {key} |-> IF k = key THEN value ELSE h[k]]

\* ---- ParsingError ----
NoError == [kind |-> "None", token |-> <<>>]
InvalidMethod(tok) == [kind |-> "InvalidMethod", token |-> tok]
InvalidVersion(tok) == [kind |-> "InvalidVersion", token |-> tok]

\* ---- byte classification ----
is_crlf(b0, b1) == b0 = CR /\ b1 = LF

is_whitespace(byte) == byte = SPACE \/ byte = LF \/ byte = CR \/ byte = TAB

\* Variant of is_valid_method: the TRACE arm is missing.
is_valid_method_no_trace(method) ==
  method \in { <<"O", "P", "T", "I", "O", "N", "S">>, <<"G", "E", "T">>, <<"H", "E", "A", "D">>, <<"P", "O", "S", "T">>,
               <<"P", "U", "T">>, <<"D", "E", "L", "E", "T", "E">>, <<"C", "O", "N", "N", "E", "C", "T">> }

\* Variant of is_valid_method: lower-case spellings match too.
is_valid_method_any_case(method) ==
  method \in { <<"O", "P", "T", "I", "O", "N", "S">>, <<"G", "E", "T">>, <<"H", "E", "A", "D">>, <<"P", "O", "S", "T">>,
               <<"P", "U", "T">>, <<"D", "E", "L", "E", "T", "E">>, <<"T", "R", "A", "C", "E">>, <<"C", "O", "N", "N", "E", "C", "T">>,
               <<"g", "e", "t">>, <<"p", "o", "s", "t">>, <<"p", "u", "t">> }

is_valid_method(method) ==
  method \in { <<"O", "P", "T", "I", "O", "N", "S">>, <<"G", "E", "T">>, <<"H", "E", "A", "D">>, <<"P", "O", "S", "T">>,
               <<"P", "U", "T">>, <<"D", "E", "L", "E", "T", "E">>, <<"T", "R", "A", "C", "E">>, <<"C", "O", "N", "N", "E", "C", "T">> }

\* Variant of is_valid_version: only the "HTTP/" prefix is compared.
is_valid_version_prefix(version) ==
  Len(version) > 5 /\ SubSeq(version, 1, 5) = <<"H", "T", "T", "P", "/">>

is_valid_version(version) ==
  version \in { <<"H", "T", "T", "P", "/", "1">>, <<"H", "T", "T", "P", "/", "1", ".", "0">>, <<"H", "T", "T", "P", "/", "1", ".", "1">>, <<"H", "T", "T", "P", "/", "2">> }

\* ---- cursor primitives ----
RECURSIVE skip_spaces_scan(_, _)
skip_spaces_scan(bytes, curr) ==
  IF curr < Len(bytes) /\ bytes[curr + 1] = SPACE
  THEN skip_spaces_scan(bytes, curr + 1)
  ELSE curr

\* Variant of skip_spaces: every whitespace byte is skipped.
RECURSIVE skip_whitespace_scan(_, _)
skip_whitespace_scan(bytes, curr) ==
  IF curr < Len(bytes) /\ is_whitespace(bytes[curr + 1])
  THEN skip_whitespace_scan(bytes, curr + 1)
  ELSE curr

skip_spaces_any_whitespace(pkt) == SliceFrom(pkt, skip_whitespace_scan(pkt, 0))

skip_spaces(pkt) == SliceFrom(pkt, skip_spaces_scan(pkt, 0))

\* skip_crlf reads bytes[0] and bytes[1] unconditionally.
skip_crlf_panics(pkt) == Len(pkt) < 2

skip_crlf(pkt) ==
  IF is_crlf(pkt[1], pkt[2]) THEN SliceFrom(pkt, 2) ELSE pkt

RECURSIVE parse_until_char_scan(_, _, _)
parse_until_char_scan(bytes, chr, curr) ==
  IF curr < Len(bytes) /\ bytes[curr + 1] # chr
  THEN parse_until_char_scan(bytes, chr, curr + 1)
  ELSE curr

\* Variant of parse_until_char: the scanned span and the remainder are swapped.
parse_until_char_swapped(pkt, chr) ==
  LET curr == parse_until_char_scan(pkt, chr, 0)
  IN  [res |-> SliceFrom(pkt, curr), packet |-> Slice(pkt, 0, curr)]

parse_until_char(pkt, chr) ==
  LET curr == parse_until_char_scan(pkt, chr, 0)
  IN  [res |-> Slice(pkt, 0, curr), packet |-> SliceFrom(pkt, curr)]

\* ---- parser values ----
Parser(st, pkt, req) ==
  [state |-> st, packet |-> pkt, request |-> req, error |-> NoError]

\* An Err(..) result: the parser and its Request were moved into parse and dropped.
Failed(err) ==
  [state |-> "Error", packet |-> <<>>, request |-> Request_new, error |-> err]

\* A panic (index or slice out of range): nothing is returned.
Panicked ==
  [state |-> "Panic", packet |-> <<>>, request |-> Request_new, error |-> NoError]

\* ---- RequestLine<Method> ----
RECURSIVE Method_scan(_, _)
Method_scan(bytes, curr) ==
  IF curr >= Len(bytes) THEN OOB
  ELSE IF bytes[curr + 1] # SPACE THEN Method_scan(bytes, curr + 1)
  ELSE curr

Method_parse(pkt, req) ==
  LET curr == Method_scan(pkt, 0) IN
  IF curr = OOB THEN Panicked
  ELSE LET method == Slice(pkt, 0, curr) IN
       IF ~is_valid_method(method) THEN Failed(InvalidMethod(method))
       ELSE Parser("Uri", skip_spaces(SliceFrom(pkt, curr + 1)),
                   [req EXCEPT !.method = method])

\* ---- RequestLine<Uri> ----
\* Variant of Uri_parse: the scan for the space is unchecked, as in Method.
Uri_parse_requires_space(pkt, req) ==
  LET curr == Method_scan(pkt, 0) IN
  IF curr = OOB THEN Panicked
  ELSE Parser("Version", skip_spaces(SliceFrom(pkt, curr)),
              [req EXCEPT !.request_uri = Slice(pkt, 0, curr)])

\* Variant of Uri_parse: the result is tagged Header, skipping Version.
Uri_parse_skips_version(pkt, req) ==
  LET r == parse_until_char(pkt, SPACE) IN
  Parser("Header", skip_spaces(r.packet), [req EXCEPT !.request_uri = r.res])

Uri_parse(pkt, req) ==
  LET r == parse_until_char(pkt, SPACE) IN
  Parser("Version", skip_spaces(r.packet), [req EXCEPT !.request_uri = r.res])

\* ---- RequestLine<Version> ----
RECURSIVE Version_scan(_, _)
Version_scan(bytes, curr) ==
  IF curr + 1 >= Len(bytes) THEN OOB
  ELSE IF ~is_crlf(bytes[curr + 1], bytes[curr + 2]) THEN Version_scan(bytes, curr + 1)
  ELSE curr

\* Variant of Version_parse: HTTP/0.9 is let through.
Version_parse_accepts_09(pkt, req) ==
  LET curr == Version_scan(pkt, 0) IN
  IF curr = OOB THEN Panicked
  ELSE LET version == Slice(pkt, 0, curr) IN
       IF ~(is_valid_version(version) \/ version = <<"H", "T", "T", "P", "/", "0", ".", "9">>)
       THEN Failed(InvalidVersion(version))
       ELSE Parser("Header", SliceFrom(pkt, curr + 2),
                   [req EXCEPT !.http_version = version])

\* Variant of Version_parse: the error is returned next to the partial parser.
Version_parse_keeps_partial(pkt, req) ==
  LET curr == Version_scan(pkt, 0) IN
  IF curr = OOB THEN Panicked
  ELSE LET version == Slice(pkt, 0, curr) IN
       IF ~is_valid_version(version)
       THEN [state |-> "Error", packet |-> pkt, request |-> req,
             error |-> InvalidVersion(version)]
       ELSE Parser("Header", SliceFrom(pkt, curr + 2),
                   [req EXCEPT !.http_version = version])

Version_parse(pkt, req) ==
  LET curr == Version_scan(pkt, 0) IN
  IF curr = OOB THEN Panicked
  ELSE LET version == Slice(pkt, 0, curr) IN
       IF ~is_valid_version(version) THEN Failed(InvalidVersion(version))
       ELSE Parser("Header", SliceFrom(pkt, curr + 2),
                   [req EXCEPT !.http_version = version])

\* ---- Header ----
RECURSIVE key_scan(_, _)
key_scan(bytes, curr) ==
  IF curr >= Len(bytes) THEN OOB
  ELSE IF ~is_whitespace(bytes[curr + 1]) /\ bytes[curr + 1] # COLON
       THEN key_scan(bytes, curr + 1)
  ELSE curr

RECURSIVE separator_scan(_, _)
separator_scan(bytes, curr) ==
  IF curr >= Len(bytes) THEN OOB
  ELSE IF is_whitespace(bytes[curr + 1]) \/ bytes[curr + 1] = COLON
       THEN separator_scan(bytes, curr + 1)
  ELSE curr

\* The value loop starts at the curr the separator loop left behind.
RECURSIVE value_scan(_, _)
value_scan(bytes, curr) ==
  IF Len(bytes) < 2 THEN curr
  ELSE IF curr + 1 >= Len(bytes) THEN OOB
  ELSE IF ~is_crlf(bytes[curr + 1], bytes[curr + 2]) THEN value_scan(bytes, curr + 1)
  ELSE curr

\* parse_line: [panic, packet, header]
LinePanic == [panic |-> TRUE, packet |-> <<>>, header |-> NoHeader]

parse_line(pkt, header) ==
  LET kcurr == key_scan(pkt, 0) IN
  IF kcurr = OOB THEN LinePanic
  ELSE
    LET key  == Slice(pkt, 0, kcurr)
        pkt1 == SliceFrom(pkt, kcurr)
        scurr == separator_scan(pkt1, 0)
    IN
    IF scurr = OOB THEN LinePanic
    ELSE
      LET pkt2 == SliceFrom(pkt1, scurr)
          curr == value_scan(pkt2, scurr)
      IN
      IF curr = OOB \/ curr > Len(pkt2) \/ curr + 2 > Len(pkt2) THEN LinePanic
      ELSE [panic |-> FALSE,
            packet |-> SliceFrom(pkt2, curr + 2),
            header |-> HashMap_insert(header, key, Slice(pkt2, 0, curr))]

RECURSIVE Header_loop(_, _)
Header_loop(pkt, header) ==
  IF Len(pkt) >= 2 /\ ~is_crlf(pkt[1], pkt[2])
  THEN LET l == parse_line(pkt, header) IN
       IF l.panic THEN l ELSE Header_loop(l.packet, l.header)
  ELSE [panic |-> FALSE, packet |-> pkt, header |-> header]

Header_parse(pkt, req) ==
  LET l == Header_loop(pkt, req.header) IN
  IF l.panic \/ skip_crlf_panics(l.packet) THEN Panicked
  ELSE Parser("Body", skip_crlf(l.packet), [req EXCEPT !.header = l.header])

\* ---- Body ----
\* Variant of Body_parse: the body is put into a fresh Request.
Body_parse_fresh(pkt, req) ==
  [state |-> "Request", packet |-> <<>>,
   request |-> [Request_new EXCEPT !.body = pkt], error |-> NoError]

Body_parse(pkt, req) ==
  [state |-> "Request", packet |-> <<>>,
   request |-> [req EXCEPT !.body = pkt], error |-> NoError]

\* ---- inputs ----
\* The eight methods and four versions the specification names.
EightMethods ==
  { <<"O", "P", "T", "I", "O", "N", "S">>, <<"G", "E", "T">>, <<"H", "E", "A", "D">>, <<"P", "O", "S", "T">>,
    <<"P", "U", "T">>, <<"D", "E", "L", "E", "T", "E">>, <<"T", "R", "A", "C", "E">>, <<"C", "O", "N", "N", "E", "C", "T">> }

FourVersions ==
  { <<"H", "T", "T", "P", "/", "1">>, <<"H", "T", "T", "P", "/", "1", ".", "0">>, <<"H", "T", "T", "P", "/", "1", ".", "1">>, <<"H", "T", "T", "P", "/", "2">> }

RoundTripInput == <<"G", "E", "T", " ", "/", "a", " ", "H", "T", "T", "P", "/", "1", ".", "1", "\r", "\n", "H", "o", "s", "t", ":", " ", "x", "\r", "\n", "\r", "\n", "b", "o", "d", "y">>

\* Well-formed requests given by their components.
RoundTripCases ==
  { [method |-> <<"G", "E", "T">>, uri |-> <<"/", "a">>, version |-> <<"H", "T", "T", "P", "/", "1", ".", "1">>,
     lines |-> << <<<<"H", "o", "s", "t">>, <<"x">>>> >>, body |-> <<"b", "o", "d", "y">>],
    [method |-> <<"G", "E", "T">>, uri |-> <<"/", "a">>, version |-> <<"H", "T", "T", "P", "/", "1", ".", "1">>,
     lines |-> << >>, body |-> <<"b", "o", "d", "y">>],
    [method |-> <<"P", "O", "S", "T">>, uri |-> <<"/">>, version |-> <<"H", "T", "T", "P", "/", "1", ".", "0">>,
     lines |-> << <<<<"K", "e", "y">>, <<"V", "a", "l", "u", "e">>>> >>, body |-> <<>>],
    [method |-> <<"P", "U", "T">>, uri |-> <<"/", "a">>, version |-> <<"H", "T", "T", "P", "/", "2">>,
     lines |-> << <<<<"X">>, <<"1", "1">>>>, <<<<"K", "e", "y">>, <<"V", "a", "l", "u", "e">>>> >>, body |-> <<"b", "o", "d", "y">>],
    [method |-> <<"D", "E", "L", "E", "T", "E">>, uri |-> <<"/", "a">>, version |-> <<"H", "T", "T", "P", "/", "1">>,
     lines |-> << <<<<"X">>, <<"1">>>>, <<<<"K", "e", "y">>, <<"V", "a", "l", "u", "e">>>> >>, body |-> <<>>] }

RECURSIVE RenderLines(_)
RenderLines(ls) ==
  IF ls = << >> THEN << >>
  ELSE Head(ls)[1] \o <<COLON, SPACE>> \o Head(ls)[2] \o <<CR, LF>> \o RenderLines(Tail(ls))

\* <method> SP <target> SP <version> CRLF, '<key>: <value>' CRLF lines, CRLF, body
Render(r) ==
  r.method \o <<SPACE>> \o r.uri \o <<SPACE>> \o r.version \o <<CR, LF>>
    \o RenderLines(r.lines) \o <<CR, LF>> \o r.body

\* the mapping key -> value of the lines (a later line replaces an earlier one)
LinesMap(ls) ==
  [k \in { ls[i][1] : i \in DOMAIN ls } |->
     ls[CHOOSE i \in DOMAIN ls :
          ls[i][1] = k /\ \A j \in DOMAIN ls : ls[j][1] = k => j <= i][2]]

MainPacket ==
  <<"P", "O", "S", "T", " ", "/", "c", "g", "i", "-", "b", "i", "n", "/", "p", "r", "o", "c", "e", "s", "s", ".", "c", "g", "i", " ", "H", "T", "T", "P", "/", "1", ".", "1", "\r", "\n", "U", "s", "e", "r", "-", "A", "g", "e", "n", "t", ":", " ", "M", "o", "z", "i", "l", "l", "a", "/", "4", ".", "0", " ", "(", "c", "o", "m", "p", "a", "t", "i", "b", "l", "e", ";", " ", "M", "S", "I", "E", "5", ".", "0", "1", ";", " ", "W", "i", "n", "d", "o", "w", "s", " ", "N", "T", ")", "\r", "\n", "H", "o", "s", "t", ":", " ", "w", "w", "w", ".", "t", "u", "t", "o", "r", "i", "a", "l", "s", "p", "o", "i", "n", "t", ".", "c", "o", "m", "\r", "\n", "C", "o", "n", "t", "e", "n", "t", "-", "T", "y", "p", "e", ":", " ", "a", "p", "p", "l", "i", "c", "a", "t", "i", "o", "n", "/", "x", "-", "w", "w", "w", "-", "f", "o", "r", "m", "-", "u", "r", "l", "e", "n", "c", "o", "d", "e", "d", "\r", "\n", "C", "o", "n", "t", "e", "n", "t", "-", "L", "e", "n", "g", "t", "h", ":", " ", "l", "e", "n", "g", "t", "h", "\r", "\n", "A", "c", "c", "e", "p", "t", "-", "L", "a", "n", "g", "u", "a", "g", "e", ":", " ", "e", "n", "-", "u", "s", "\r", "\n", "A", "c", "c", "e", "p", "t", "-", "E", "n", "c", "o", "d", "i", "n", "g", ":", " ", "g", "z", "i", "p", ",", " ", "d", "e", "f", "l", "a", "t", "e", "\r", "\n", "C", "o", "n", "n", "e", "c", "t", "i", "o", "n", ":", " ", "K", "e", "e", "p", "-", "A", "l", "i", "v", "e", "\r", "\n", "\r", "\n", "l", "i", "c", "e", "n", "s", "e", "I", "D", "=", "s", "t", "r", "i", "n", "g", "&", "c", "o", "n", "t", "e", "n", "t", "=", "s", "t", "r", "i", "n", "g", "&", "/", "p", "a", "r", "a", "m", "s", "X", "M", "L", "=", "s", "t", "r", "i", "n", "g">>

CRLF == <<CR, LF>>

MethodTokens ==
  EightMethods \cup { <<>>, <<"g", "e", "t">>, <<"P", "O", "S">>, <<"F", "E", "T", "C", "H">> }

\* what follows the method token
MethodRests ==
  { <<>>, <<" ">>, <<" ", "/", "a">>, <<" ", " ", "/", "a", " ", "H", "T", "T", "P", "/", "1", ".", "1">>, <<" ", "/", "a", " ", "H", "T", "T", "P", "/", "1", ".", "1", "\r", "\n", "\r", "\n">>,
    <<" ", " ", " ", "/", "a", " ", " ", "H", "T", "T", "P", "/", "1", ".", "1", "\r", "\n", "\r", "\n", "b", "o", "d", "y">>, <<" ", "\t", "/", "a", " ", "H", "T", "T", "P", "/", "1", ".", "1", "\r", "\n", "\r", "\n">> }

VersionTokens ==
  FourVersions \cup { <<>>, <<"H", "T", "T", "P", "/", "0", ".", "9">>, <<"h", "t", "t", "p", "/", "1", ".", "1">>, <<"H", "T", "T", "P", "/", "1", ".", "1", " ">>, <<"H", "T", "T", "P", "/", "3">> }

\* what follows the version token
VersionRests ==
  { <<>>, <<CR>>, <<LF>>, CRLF, <<"\r", "\n", "\r", "\n">>, <<"\r", "\n", "\r", "\n", "b", "o", "d", "y">>, <<"\r", "\n", "X", ":", " ", "1", "1", "\r", "\n", "\r", "\n">> }

HeaderKeys == { <<"X">>, <<"K", "e", "y">> }
HeaderSeparators == { <<":">>, <<":", " ">>, <<" ", ":", " ", " ">>, <<" ">> }
HeaderValues == { <<>>, <<"1">>, <<"V", "a", "l", "u", "e">> }

HeaderLines ==
  { k \o s \o v \o CRLF : k \in HeaderKeys, s \in HeaderSeparators, v \in HeaderValues }

\* lines with a colon in the separator and a non-empty value
ColonSeparators == { <<":">>, <<":", " ">>, <<" ", ":", " ", " ">> }

WellFormedLines ==
  { k \o s \o v \o CRLF :
      k \in HeaderKeys, s \in ColonSeparators, v \in HeaderValues \ { <<>> } }

\* the header blocks of at most n lines drawn from L
RECURSIVE HeaderBlocks(_, _)
HeaderBlocks(L, n) ==
  IF n = 0 THEN { <<>> }
  ELSE LET B == HeaderBlocks(L, n - 1) IN
       B \cup { b \o l : b \in B, l \in L }

\* what follows the header lines
Tails == { <<>>, CRLF, <<"\r", "\n", "b", "o", "d", "y">>, <<"b", "o", "d", "y">> }

RequestLineOK == <<"G", "E", "T", " ", "/", "a", " ", "H", "T", "T", "P", "/", "1", ".", "1", "\r", "\n">>

\* two header lines with the same key X, then the blank line and a body
RepeatedValues == { <<"1">>, <<"2">>, <<"V", "a", "l", "u", "e">> }

RepeatedKey(v1, v2) ==
  RequestLineOK \o <<"X", ":", " ">> \o v1 \o CRLF \o <<"X", ":", " ">> \o v2 \o CRLF \o <<"\r", "\n", "b", "o", "d", "y">>

Inputs ==
  { m \o r : m \in MethodTokens, r \in MethodRests }
  \cup { <<"G", "E", "T", " ", "/", "a", " ">> \o v \o r : v \in VersionTokens, r \in VersionRests }
  \cup { RequestLineOK \o b \o t : b \in HeaderBlocks(HeaderLines, MaxHeaders), t \in Tails }
  \cup { Render(r) : r \in RoundTripCases }
  \cup { RepeatedKey(v1, v2) : v1 \in RepeatedValues, v2 \in RepeatedValues }
  \cup { RoundTripInput, MainPacket }

\* ---- the state machine ----
\* HttpRequestParser::start(packet)
Init ==
  /\ input \in Inputs
  /\ state = "Method"
  /\ packet = input
  /\ request = Request_new
  /\ error = NoError

Become(p) ==
  /\ state' = p.state
  /\ packet' = p.packet
  /\ request' = p.request
  /\ error' = p.error
  /\ UNCHANGED input

ParseMethod == state = "Method" /\ Become(Method_parse(packet, request))

ParseUri == state = "Uri" /\ Become(Uri_parse(packet, request))

ParseVersion == state = "Version" /\ Become(Version_parse(packet, request))

ParseHeader == state = "Header" /\ Become(Header_parse(packet, request))

ParseBody == state = "Body" /\ Become(Body_parse(packet, request))

Next == ParseMethod \/ ParseUri \/ ParseVersion \/ ParseHeader \/ ParseBody

Spec == Init /\ [][Next]_vars

TypeOK ==
  /\ state \in {"Method", "Uri", "Version", "Header", "Body", "Request", "Error", "Panic"}
  /\ error.kind \in {"None", "InvalidMethod", "InvalidVersion"}

\* ---- vocabulary of the properties ----
\* the parse has ended: a finished Request, an Err(..) or a panic
Finished == state \in {"Request", "Error", "Panic"}

HasByte(s, b) == \E i \in 1..Len(s) : s[i] = b

\* 0-based offset of the first byte b of s
FirstByte(s, b) ==
  (CHOOSE i \in 1..Len(s) : s[i] = b /\ \A j \in 1..(i - 1) : s[j] # b) - 1

HasCRLF(s) == \E i \in 1..(Len(s) - 1) : s[i] = CR /\ s[i + 1] = LF

\* 0-based offset of the first CR LF of s
FirstCRLF(s) ==
  (CHOOSE i \in 1..(Len(s) - 1) :
     /\ s[i] = CR /\ s[i + 1] = LF
     /\ \A j \in 1..(i - 1) : ~(s[j] = CR /\ s[j + 1] = LF)) - 1

IsSubstring(t, s) ==
  \E i \in 0..(Len(s) - Len(t)) : SubSeq(s, i + 1, i + Len(t)) = t

IsSuffix(t, s) ==
  Len(t) <= Len(s) /\ SubSeq(s, Len(s) - Len(t) + 1, Len(s)) = t

\* ---- C1 ----
\* C1: for a well-formed request text (valid method SP target SP valid version
\* CRLF, 'key: value' CRLF lines, a blank line, a body) the five advances end
\* in a Request whose method, request_uri, http_version, header mapping and
\* body are exactly those components.
C1_RoundTrip ==
  \A r \in RoundTripCases :
    (input = Render(r) /\ Finished) =>
      /\ state = "Request"
      /\ request = [method |-> r.method, request_uri |-> r.uri,
                    http_version |-> r.version, header |-> LinesMap(r.lines),
                    body |-> r.body]

\* ---- C2 ----
\* C2: when the input begins with one of the eight method tokens followed by a
\* space, the Method advance returns the Uri-state parser and the stored
\* method is the token.
C2_ValidMethodAccepted ==
  [][ (state = "Method" /\ HasByte(packet, SPACE)
         /\ Slice(packet, 0, FirstByte(packet, SPACE)) \in EightMethods)
      => (state' = "Uri"
          /\ request'.method = Slice(packet, 0, FirstByte(packet, SPACE))) ]_vars

C2_Witness ==
  /\ state = "Uri"
  /\ request.method = <<"C", "O", "N", "N", "E", "C", "T">>
  /\ SubSeq(input, 1, 8) = <<"C", "O", "N", "N", "E", "C", "T", " ">>

\* ---- C3 ----
\* C3: when the text before the first space is not one of the eight methods
\* (the empty token, a lower-case method, a proper prefix), the Method advance
\* fails with InvalidMethod carrying exactly that token and no Uri-state
\* parser is produced.
C3_InvalidMethodRejected ==
  [][ (state = "Method" /\ HasByte(packet, SPACE)
         /\ Slice(packet, 0, FirstByte(packet, SPACE)) \notin EightMethods)
      => (state' = "Error"
          /\ error' = [kind |-> "InvalidMethod",
                       token |-> Slice(packet, 0, FirstByte(packet, SPACE))]) ]_vars

C3_Witness ==
  /\ state = "Error"
  /\ error = [kind |-> "InvalidMethod", token |-> <<"P", "O", "S">>]
  /\ SubSeq(input, 1, 4) = <<"P", "O", "S", " ">>

\* ---- C4 ----
\* C4: in the Version state, when the remaining input contains a CR LF, the
\* advance stores the text before the first CR LF as http_version and places
\* the cursor right after that CR LF if and only if the text is one of the
\* four versions; otherwise it fails with InvalidVersion carrying that text.
C4_VersionValidated ==
  [][ (state = "Version" /\ HasCRLF(packet)) =>
      LET at == FirstCRLF(packet)
          text == Slice(packet, 0, at)
      IN  IF text \in FourVersions
          THEN /\ state' = "Header"
               /\ request'.http_version = text
               /\ packet' = SliceFrom(packet, at + 2)
               /\ Len(input) - Len(packet') = (Len(input) - Len(packet)) + at + 2
          ELSE /\ state' = "Error"
               /\ error' = [kind |-> "InvalidVersion", token |-> text] ]_vars

C4_Witness ==
  /\ state = "Error"
  /\ error = [kind |-> "InvalidVersion", token |-> <<"H", "T", "T", "P", "/", "0", ".", "9">>]

\* ---- C5 ----
\* C5: a Method state whose remaining input has no space, or a Version state
\* whose remaining input has no CR LF, returns the TruncatedInput error; no
\* advance scans past the end of the buffer.
C5_TruncatedInputIsError ==
  [][ ((state = "Method" /\ ~HasByte(packet, SPACE))
        \/ (state = "Version" /\ ~HasCRLF(packet)))
      => (state' = "Error" /\ error'.kind = "TruncatedInput") ]_vars

\* ---- C6 ----
Successor(s) ==
  CASE s = "Method" -> "Uri"
    [] s = "Uri" -> "Version"
    [] s = "Version" -> "Header"
    [] s = "Header" -> "Body"
    [] s = "Body" -> "Request"
    [] OTHER -> "Nothing"

\* C6: every advance consumes the parser and moves it to the next state of
\* Method -> Uri -> Version -> Header -> Body -> Request, or ends the parse
\* (an error from Method or Version, or an aborting panic); no state is kept,
\* revisited or skipped, nothing follows a finished parse, and the finished
\* Request leaves no parser state.
C6_LinearLifecycle ==
  [][ /\ state' # state
      /\ \/ state' = Successor(state)
         \/ state \in {"Method", "Version"} /\ state' = "Error"
         \/ state \in {"Method", "Version", "Header"} /\ state' = "Panic"
      /\ state' = "Request" => packet' = <<>> ]_vars

C6_Witness ==
  /\ state = "Request"
  /\ input = MainPacket
  /\ request.method = <<"P", "O", "S", "T">>

\* ---- C7 ----
\* C7: a header block with two lines of the same key yields exactly one entry
\* for the key, holding the value of the later line; "X: 1" CRLF "X: 2" CRLF
\* yields {"X" -> "2"}.
C7_LastWriteWins ==
  \A v1 \in RepeatedValues, v2 \in RepeatedValues :
    (Finished /\ input = RepeatedKey(v1, v2))
    => (state = "Request" /\ request.header = [k \in { <<"X">> } |-> v2])

\* ---- C8 ----
\* C8: for the same key and value the separators ":", ": " and " :  " all
\* insert the pair (key, value).
C8_SeparatorTolerance ==
  \A k \in HeaderKeys, s \in ColonSeparators, v \in HeaderValues \ { <<>> } :
    (Finished /\ input = RequestLineOK \o k \o s \o v \o CRLF \o CRLF)
    => (state = "Request" /\ request.header = [x \in { k } |-> v])

\* ---- C9 ----
\* well-formed inputs that end right after the blank line closing the headers
BlankEnded ==
  { RequestLineOK \o b \o CRLF : b \in HeaderBlocks(WellFormedLines, MaxHeaders) }

\* C9: the Body advance stores the whole remaining buffer as body and cannot
\* fail; so an input that ends right after the blank line closing the header
\* block yields body = "".
C9_BodyIsRemainder ==
  [][ /\ state = "Body" => (state' = "Request" /\ request'.body = packet)
      /\ (Finished' /\ input \in BlankEnded)
           => (state' = "Request" /\ request'.body = <<>>) ]_vars

\* ---- C10 ----
\* C10: in every parser state and in the finished Request, method,
\* request_uri, http_version, body and every header key and value are
\* contiguous substrings of the input buffer.
C10_SpanIdentity ==
  /\ IsSubstring(request.method, input)
  /\ IsSubstring(request.request_uri, input)
  /\ IsSubstring(request.http_version, input)
  /\ IsSubstring(request.body, input)
  /\ \A k \in DOMAIN request.header :
        IsSubstring(k, input) /\ IsSubstring(request.header[k], input)

C10_Witness ==
  /\ state = "Request"
  /\ Cardinality(DOMAIN request.header) = 2
  /\ request.body = <<"b", "o", "d", "y">>

\* ---- C11 ----
\* header blocks of CR-LF-terminated lines (with or without a colon, with or
\* without a value, names possibly repeated) followed by the blank line
AcceptableInputs ==
  { RequestLineOK \o b \o CRLF \o t :
      b \in HeaderBlocks(HeaderLines, MaxHeaders), t \in { <<>>, <<"b", "o", "d", "y">> } }

\* C11: a header line without a colon, one with an empty value and a repeated
\* name are accepted silently: on a block of such lines followed by a blank
\* line the Header advance reaches the Body state.
C11_HeaderAcceptsLines ==
  [][ (state = "Header" /\ input \in AcceptableInputs) => state' = "Body" ]_vars

\* ---- C12 ----
\* C12: a failed Method or Version advance is terminal: nothing happens after
\* the error, and neither the parser nor the partial Request (method, uri)
\* is left to the caller.
C12_FailureIsTerminal ==
  [][ /\ state # "Error"
      /\ state' = "Error" =>
           /\ state \in {"Method", "Version"}
           /\ error'.kind = IF state = "Method" THEN "InvalidMethod" ELSE "InvalidVersion"
           /\ packet' = <<>>
           /\ request' = Request_new ]_vars

C12_Witness ==
  /\ state = "Error"
  /\ error = [kind |-> "InvalidVersion", token |-> <<"h", "t", "t", "p", "/", "1", ".", "1">>]
  /\ request = Request_new

\* ---- C13 ----
\* C13: the remaining slice is always a suffix of the input buffer and no
\* advance makes it longer.
C13_CursorMonotone ==
  [][ /\ IsSuffix(packet, input)
      /\ IsSuffix(packet', input)
      /\ Len(packet') <= Len(packet) ]_vars

C13_Witness ==
  /\ state = "Body"
  /\ packet = <<"b", "o", "d", "y">>
  /\ request.header # NoHeader

\* ---- C14 ----
\* header remainders made of well-formed lines closed by the blank line
TerminatedInputs ==
  { RequestLineOK \o b \o CRLF \o t :
      b \in HeaderBlocks(WellFormedLines, MaxHeaders), t \in { <<>>, <<"b", "o", "d", "y">> } }

\* every iteration of the header loop on pkt returns, with a strictly shorter
\* remainder that starts right after a CR LF
RECURSIVE EachLineConsumed(_)
EachLineConsumed(pkt) ==
  IF Len(pkt) >= 2 /\ ~is_crlf(pkt[1], pkt[2])
  THEN LET l == parse_line(pkt, NoHeader)
           used == Len(pkt) - Len(l.packet)
       IN  /\ ~l.panic
           /\ Len(l.packet) < Len(pkt)
           /\ SubSeq(pkt, used - 1, used) = CRLF
           /\ EachLineConsumed(l.packet)
  ELSE TRUE

\* C14: on a Header remainder with a terminating CR LF every iteration of the
\* header loop consumes at least one full line and the Header advance ends in
\* the Body state.
C14_HeaderLoopTerminates ==
  [][ (state = "Header" /\ input \in TerminatedInputs)
      => (EachLineConsumed(packet) /\ state' = "Body") ]_vars

\* ---- C15 ----
IsSeparatorByte(b) == is_whitespace(b) \/ b = COLON

\* 0-based offset of the first byte at or after from that satisfies P
FirstAt(s, from, P(_)) ==
  (CHOOSE i \in (from + 1)..Len(s) :
     P(s[i]) /\ \A j \in (from + 1)..(i - 1) : ~P(s[j])) - 1

HasAt(s, from, P(_)) == \E i \in (from + 1)..Len(s) : P(s[i])

IsValueByte(b) == ~IsSeparatorByte(b)

\* the line at the head of s has a key, a separator, a value start and a CR LF
LineDelimited(s) ==
  /\ HasAt(s, 0, IsSeparatorByte)
  /\ HasAt(s, FirstAt(s, 0, IsSeparatorByte), IsValueByte)
  /\ HasCRLF(SliceFrom(s, FirstAt(s, FirstAt(s, 0, IsSeparatorByte), IsValueByte)))

ValueStart(s) == FirstAt(s, FirstAt(s, 0, IsSeparatorByte), IsValueByte)

ValueEnd(s) == ValueStart(s) + FirstCRLF(SliceFrom(s, ValueStart(s)))

\* C15: the value of a header line is the span from the first byte after the
\* separator up to the first CR LF after the separator, and the cursor then
\* stands right after that CR LF; no stored value contains CR LF.
C15_ValueSpan ==
  [][ /\ (state = "Header" /\ Len(packet) >= 2 /\ ~is_crlf(packet[1], packet[2])
            /\ LineDelimited(packet))
         => LET l == parse_line(packet, NoHeader)
                key == Slice(packet, 0, FirstAt(packet, 0, IsSeparatorByte))
            IN  /\ ~l.panic
                /\ l.header = [k \in { key } |->
                                Slice(packet, ValueStart(packet), ValueEnd(packet))]
                /\ l.packet = SliceFrom(packet, ValueEnd(packet) + 2)
      /\ \A k \in DOMAIN request'.header : ~HasCRLF(request'.header[k]) ]_vars

\* ---- C16 ----
\* C16: when the header loop has nothing to parse (the remainder starts with
\* CR LF, or has fewer than two bytes), the Header advance consumes a leading
\* CR LF if there is one, else leaves the cursor where it is, and reaches the
\* Body state.
C16_EndOfHeadersNonFatal ==
  [][ (state = "Header" /\ (Len(packet) < 2 \/ is_crlf(packet[1], packet[2])))
      => /\ state' = "Body"
         /\ packet' = IF Len(packet) >= 2 THEN SliceFrom(packet, 2) ELSE packet ]_vars

\* ---- C17 ----
\* number of space bytes at the head of s
LeadingSpaces(s) ==
  CHOOSE k \in 0..Len(s) :
    /\ \A i \in 1..k : s[i] = SPACE
    /\ k = Len(s) \/ s[k + 1] # SPACE

\* C17: the Uri advance never fails: request_uri is the bytes before the
\* first space, or the whole remainder when there is none; the run of spaces
\* that follows is skipped and the Version state is reached.
C17_UriInfallible ==
  [][ state = "Uri" =>
      LET uri == IF HasByte(packet, SPACE)
                 THEN Slice(packet, 0, FirstByte(packet, SPACE))
                 ELSE packet
          rest == SliceFrom(packet, Len(uri))
      IN  /\ state' = "Version"
          /\ request'.request_uri = uri
          /\ packet' = SliceFrom(rest, LeadingSpaces(rest)) ]_vars

C17_Witness ==
  /\ state = "Version"
  /\ input = <<"G", "E", "T", " ", "/", "a">>
  /\ request.request_uri = <<"/", "a">>
  /\ packet = <<>>

\* ---- C18 ----
\* C18: after a successful Method advance the cursor is past the separating
\* space and every space byte after it, so the remainder does not begin with
\* a space; only 0x20 is skipped (a tab, CR or LF stays) and an empty rest
\* stays empty.
C18_SpacesSkipped ==
  [][ (state = "Method" /\ state' = "Uri") =>
      LET rest == SliceFrom(packet, FirstByte(packet, SPACE) + 1)
      IN  /\ packet' = SliceFrom(rest, LeadingSpaces(rest))
          /\ packet' = <<>> \/ packet'[1] # SPACE ]_vars

C18_Witness ==
  /\ state = "Uri"
  /\ packet # <<>>
  /\ packet[1] = TAB

\* ---- C19 ----
\* C19: from the Uri state on, method is one of the eight methods; in Header,
\* Body and the finished Request, http_version is one of the four versions;
\* a field whose state was not reached yet is empty, and so is the header
\* mapping before the Header advance.
C19_ValidatedFields ==
  /\ state \in {"Uri", "Version", "Header", "Body", "Request"}
       => request.method \in EightMethods
  /\ state \in {"Header", "Body", "Request"}
       => request.http_version \in FourVersions
  /\ state = "Method" => request.method = <<>>
  /\ state \in {"Method", "Uri"} => request.request_uri = <<>>
  /\ state \in {"Method", "Uri", "Version"} => request.http_version = <<>>
  /\ state \in {"Method", "Uri", "Version", "Header"} => request.header = NoHeader
  /\ state \in {"Method", "Uri", "Version", "Header", "Body"} => request.body = <<>>

C19_Witness ==
  /\ state = "Body"
  /\ request.method = <<"G", "E", "T">>
  /\ request.http_version = <<"H", "T", "T", "P", "/", "2">>

\* ---- C20 ----
\* C20: an advance that returns a parser or the Request writes only the field
\* of its own state: Method method, Uri request_uri, Version http_version,
\* Header the header mapping, Body body; the other fields keep their values.
C20_Frame ==
  [][ state' \notin {"Error", "Panic"} =>
      /\ state = "Method" => request' = [request EXCEPT !.method = request'.method]
      /\ state = "Uri" => request' = [request EXCEPT !.request_uri = request'.request_uri]
      /\ state = "Version" => request' = [request EXCEPT !.http_version = request'.http_version]
      /\ state = "Header" => request' = [request EXCEPT !.header = request'.header]
      /\ state = "Body" => request' = [request EXCEPT !.body = request'.body] ]_vars

C20_Witness ==
  /\ state = "Request"
  /\ request.method = <<"P", "U", "T">>
  /\ request.request_uri = <<"/", "a">>
  /\ request.http_version = <<"H", "T", "T", "P", "/", "2">>
  /\ Cardinality(DOMAIN request.header) = 2
  /\ request.body = <<"b", "o", "d", "y">>
====
